---- MODULE Spec2Model ----
(***************************************************************************)
(* Furnify inventory app (apps/inventory): the Category and Product        *)
(* tables, the slug assignment done by Category.save / Product.save, the   *)
(* create / update / delete views with their model forms, and the storage  *)
(* constraints declared on the model fields.                               *)
(*                                                                         *)
(* Text is modelled as a sequence of one-character strings, so that        *)
(* slugify and the "-<counter>" suffix are computed character by           *)
(* character.                                                              *)
(***************************************************************************)
EXTENDS Integers, Sequences, FiniteSets, TLC

VARIABLES categories, products, nextCategoryPk, nextProductPk, last, proc, focus

vars == <<categories, products, nextCategoryPk, nextProductPk, last, proc, focus>>

-----------------------------------------------------------------------------
(* Bounds of the model. *)

\* Number of Category rows ever inserted (primary keys 1..MaxCategories).
MaxCategories == 3
\* Number of Product rows ever inserted (primary keys 1..MaxProducts).
MaxProducts == 3
\* Number of Product rows ever inserted in a run that varies the references.
MaxRefProducts == 1
\* Number of Category rows ever inserted in a run that varies the references.
MaxRefCategories == 2

\* Number of rows per table ever inserted in a concurrent run.
MaxConcurrentRows == 2

\* None: the Python None of an unsaved instance's pk and of a null parent.
None == 0

-----------------------------------------------------------------------------
(* Text helpers. *)

UpperLetters == <<"A","B","C","D","E","F","G","H","I","J","K","L","M",
                  "N","O","P","Q","R","S","T","U","V","W","X","Y","Z">>
LowerLetters == <<"a","b","c","d","e","f","g","h","i","j","k","l","m",
                  "n","o","p","q","r","s","t","u","v","w","x","y","z">>
DigitChars == <<"0","1","2","3","4","5","6","7","8","9">>

Range(s) == {s[i] : i \in DOMAIN s}

UpperSet == Range(UpperLetters)
\* The characters \w matches in lower-cased ASCII text.
WordSet == Range(LowerLetters) \cup Range(DigitChars) \cup {"_"}
\* The characters [-\s] matches.
SepSet == {" ", "-"}
\* str.lower(), character by character.
ToLower == [c \in UpperSet |-> LowerLetters[CHOOSE i \in DOMAIN UpperLetters : UpperLetters[i] = c]]

LowerChar(c) == IF c \in UpperSet THEN ToLower[c] ELSE c
IsWordChar(c) == c \in WordSet
IsSepChar(c) == c \in SepSet

\* re.sub(r"[^\w\s-]", "", value.lower())
RECURSIVE DropAndLower(_)
DropAndLower(s) ==
    IF s = <<>> THEN <<>>
    ELSE LET c == LowerChar(Head(s)) IN
         IF IsWordChar(c) \/ IsSepChar(c)
         THEN <<c>> \o DropAndLower(Tail(s))
         ELSE DropAndLower(Tail(s))

\* re.sub(r"[-\s]+", "-", value)
RECURSIVE CollapseSeps(_)
CollapseSeps(s) ==
    IF s = <<>> THEN <<>>
    ELSE IF IsSepChar(Head(s))
         THEN IF Tail(s) # <<>> /\ IsSepChar(Head(Tail(s)))
              THEN CollapseSeps(Tail(s))
              ELSE <<"-">> \o CollapseSeps(Tail(s))
         ELSE <<Head(s)>> \o CollapseSeps(Tail(s))

\* str.strip(chars)
RECURSIVE LStrip(_, _)
LStrip(s, chars) ==
    IF s # <<>> /\ Head(s) \in chars THEN LStrip(Tail(s), chars) ELSE s
RECURSIVE RStrip(_, _)
RStrip(s, chars) ==
    IF s # <<>> /\ s[Len(s)] \in chars THEN RStrip(SubSeq(s, 1, Len(s) - 1), chars) ELSE s
Strip(s, chars) == RStrip(LStrip(s, chars), chars)

\* django.utils.text.slugify as imported by models.py (ASCII text).
slugify(value) == Strip(CollapseSeps(DropAndLower(value)), {"-", "_"})

\* str(counter) of the f-string: the decimal digits of a natural number.
RECURSIVE Decimal(_)
Decimal(n) ==
    IF n < 10 THEN <<DigitChars[n + 1]>>
    ELSE Decimal(n \div 10) \o <<DigitChars[(n % 10) + 1]>>

\* f'{original_slug}-{counter}'
Suffixed(original_slug, counter) == original_slug \o <<"-">> \o Decimal(counter)

-----------------------------------------------------------------------------------------------------------------------------------------------------
(* Texts the requests and callers supply. *)

Home == <<"H","o","m","e">>
HomeLower == <<"h","o","m","e">>
HomeOne == <<"H","o","m","e"," ","1">>
Kitchen == <<"K","i","t","c","h","e","n">>
Punctuation == <<"!">>
Question == <<"?">>
Empty == <<>>

-----
(* The slug assignment of Category.save and Product.save. *)

\* <Model>.objects.filter(slug=slug).exists()
SlugExists(rows, slug) == \E k \in DOMAIN rows : rows[k].slug = slug

\* The first query: filter(slug=slug), with .exclude(pk=self.pk) when self.pk.
SlugExistsExcludingSelf(rows, slug, pk) ==
    \E k \in DOMAIN rows : rows[k].slug = slug /\ (pk # None => k # pk)

\* Variant of ProbeLoop whose counter starts one too high.
ProbeLoop_SkipFirst(rows, slug, original_slug, counter) ==
    IF \E k \in DOMAIN rows : rows[k].slug = Suffixed(original_slug, counter + 1)
    THEN Suffixed(original_slug, counter + 2)
    ELSE Suffixed(original_slug, counter + 1)

\* Variant of ProbeLoop that never probes: the colliding slug is kept.
ProbeLoop_NoProbe(rows, slug, original_slug, counter) == slug

\* The while loop: probe original-1, original-2, ... until no row holds it.
RECURSIVE ProbeLoop(_, _, _, _)
ProbeLoop(rows, slug, original_slug, counter) ==
    IF SlugExists(rows, slug)
    THEN ProbeLoop(rows, Suffixed(original_slug, counter), original_slug, counter + 1)
    ELSE slug

\* Variant of InitialSlug that regenerates the slug from the name on every save.
InitialSlug_Regenerate(self) == slugify(self.name)

\* Variant of InitialSlug that takes the name as it is, without slugify.
InitialSlug_NoSlugify(self) == IF self.slug = Empty THEN self.name ELSE self.slug

\* Variant of InitialSlug with a fallback for a name that slugifies to nothing.
InitialSlug_Fallback(self) ==
    IF self.slug # Empty THEN self.slug
    ELSE IF slugify(self.name) = Empty THEN <<"n", "-", "a">> ELSE slugify(self.name)

\* Step 1: the slug the instance enters the uniqueness check with.
InitialSlug(self) == IF self.slug = Empty THEN slugify(self.name) ELSE self.slug

\* Variant of AssignedSlug that checks generated slugs only: a slug the
\* caller supplied is written as it is.
AssignedSlug_GeneratedOnly(rows, self) ==
    IF self.slug # Empty
    THEN self.slug
    ELSE LET slug == slugify(self.name) IN
         IF \E k \in DOMAIN rows : rows[k].slug = slug /\ (self.pk # None => k # self.pk)
         THEN ProbeLoop(rows, slug, slug, 1)
         ELSE slug

\* Steps 1-4 of save: the slug the instance is written with.
AssignedSlug(rows, self) ==
    LET slug == InitialSlug(self) IN
    IF SlugExistsExcludingSelf(rows, slug, self.pk)
    THEN ProbeLoop(rows, slug, slug, 1)
    ELSE slug

-----------------------------------------------------------------------------
(* Storage: the rows and the constraints declared on the model fields. *)

\* unique=True on a column: no other row holds the value.
UniqueViolation(rows, pk, field, value) ==
    \E k \in DOMAIN rows : k # pk /\ rows[k][field] = value

\* Variant of CategoryViolations in which name is not a unique column.
CategoryViolations_NameNotUnique(rows, pk, row) ==
    {c \in {"slug"} : \E k \in DOMAIN rows : k # pk /\ rows[k][c] = row[c]}
    \cup (IF row.parent # None /\ row.parent \notin DOMAIN rows \cup {pk}
          THEN {"parent"} ELSE {})

\* Category table: the columns whose constraint the row violates (name and
\* slug are unique, parent is a foreign key).
CategoryViolations(rows, pk, row) ==
    {c \in {"name", "slug"} : UniqueViolation(rows, pk, c, row[c])}
    \cup (IF row.parent # None /\ row.parent \notin DOMAIN rows \cup {pk}
          THEN {"parent"} ELSE {})

\* Variant of ProductViolations in which slug is not a unique column.
ProductViolations_SlugNotUnique(rows, pk, row) ==
    IF row.category \notin DOMAIN categories THEN {"category"} ELSE {}

\* Product table: slug is unique, category is a foreign key.
ProductViolations(rows, pk, row) ==
    {c \in {"slug"} : UniqueViolation(rows, pk, c, row[c])}
    \cup (IF row.category \notin DOMAIN categories THEN {"category"} ELSE {})

\* INSERT or UPDATE of one row.
WriteRow(rows, pk, row) == [k \in DOMAIN rows \cup {pk} |-> IF k = pk THEN row ELSE rows[k]]

CategoryRow(self, slug) ==
    [name |-> self.name, slug |-> slug,
     description |-> self.description, parent |-> self.parent]

ProductRow(self, slug) ==
    [name |-> self.name, slug |-> slug, category |-> self.category,
     price |-> self.price, stock |-> self.stock]

\* Category.save: slug assignment, then super().save(). The result names the
\* exception raised ("" when none) with the columns whose constraint failed,
\* the table afterwards and the row's pk.
Category_save(self) ==
    LET slug == AssignedSlug(categories, self)
        row == CategoryRow(self, slug)
        pk == IF self.pk = None THEN nextCategoryPk ELSE self.pk
        violated == CategoryViolations(categories, pk, row)
    IN IF violated # {}
       THEN [raised |-> "IntegrityError", violated |-> violated,
             rows |-> categories, pk |-> self.pk]
       ELSE [raised |-> "", violated |-> {},
             rows |-> WriteRow(categories, pk, row), pk |-> pk]

\* Both tables as one: the Category rows beside the Product rows.
SharedRows ==
    [k \in DOMAIN products \cup {1000 + c : c \in DOMAIN categories} |->
        IF k \in DOMAIN products THEN products[k] ELSE categories[k - 1000]]

\* Variant of Product.save that looks for the slug in both tables.
Product_save_SharedNamespace(self) ==
    LET slug == AssignedSlug(SharedRows, self)
        row == ProductRow(self, slug)
        pk == IF self.pk = None THEN nextProductPk ELSE self.pk
        violated == ProductViolations(products, pk, row)
    IN IF violated # {}
       THEN [raised |-> "IntegrityError", violated |-> violated,
             rows |-> products, pk |-> self.pk]
       ELSE [raised |-> "", violated |-> {},
             rows |-> WriteRow(products, pk, row), pk |-> pk]

\* Product.save: the same logic on the Product table.
Product_save(self) ==
    LET slug == AssignedSlug(products, self)
        row == ProductRow(self, slug)
        pk == IF self.pk = None THEN nextProductPk ELSE self.pk
        violated == ProductViolations(products, pk, row)
    IN IF violated # {}
       THEN [raised |-> "IntegrityError", violated |-> violated,
             rows |-> products, pk |-> self.pk]
       ELSE [raised |-> "", violated |-> {},
             rows |-> WriteRow(products, pk, row), pk |-> pk]

\* Variant of Protected that looks at child Categories only.
Protected_ChildrenOnly(pk) == \E k \in DOMAIN categories : categories[k].parent = pk

\* Variant of Protected that looks at Products only.
Protected_ProductsOnly(pk) == \E k \in DOMAIN products : products[k].category = pk

\* on_delete=PROTECT on Category.parent and Product.category.
Protected(pk) ==
    \/ \E k \in DOMAIN categories : categories[k].parent = pk
    \/ \E k \in DOMAIN products : products[k].category = pk

\* Variant of RemoveRow that empties the table.
RemoveRow_All(rows, pk) == <<>>

RemoveRow(rows, pk) == [k \in DOMAIN rows \ {pk} |-> rows[k]]

-----------------------------------------------------------------------------
(* Form validation (CategoryForm, ProductForm). *)

\* The characters validate_slug accepts: ^[-a-zA-Z0-9_]+\Z
IsSlugChar(c) == c \in WordSet \/ c \in UpperSet \/ c = "-"

\* A form CharField strips surrounding whitespace before validating.
CleanName(name) == Strip(name, {" "})

\* CategoryForm.is_valid() for the instance pk (None when creating): name is
\* required, slug is optional but well-formed, parent is an existing Category
\* or blank, and name and slug are unique among the other rows.
CategoryForm_is_valid(pk, name, slug, parent) ==
    /\ CleanName(name) # Empty
    /\ \A i \in DOMAIN slug : IsSlugChar(slug[i])
    /\ parent \in {None} \cup DOMAIN categories
    /\ ~UniqueViolation(categories, pk, "name", CleanName(name))
    /\ ~UniqueViolation(categories, pk, "slug", slug)

\* Variant of clean_price that accepts every price.
clean_price_AcceptAll(price) == TRUE

\* ProductForm.clean_price
clean_price(price) == ~(price # None /\ price < 0)
\* ProductForm.clean_stock
clean_stock(stock) == ~(stock # None /\ stock < 0)

\* ProductForm.is_valid(): name and category are required, price and stock
\* must not be negative. slug is not a field of the form.
ProductForm_is_valid(name, category, price, stock) ==
    /\ CleanName(name) # Empty
    /\ category \in DOMAIN categories
    /\ clean_price(price)
    /\ clean_stock(stock)

-----------------------------------------------------------------------------
(* Processes of the concurrent specification; idle in the sequential one. *)

Procs == {1, 2}

\* The aspect of the data a run varies (see the inputs below).
Focuses == {"Category", "Product", "References", "EndToEnd", "Namespaces", "EmptySlug"}
Idle == [pc |-> "idle"]

\* The outcome of the last request: the operation, its status ("ok" for a
\* call that returned, 302 redirect, 200 re-rendered form, or the exception
\* raised) and, for an IntegrityError, the columns whose constraint failed.
Outcome(op, status, violated) == [op |-> op, status |-> status, violated |-> violated]

\* The outcome of a call of save().
Saved(op, success, res) ==
    Outcome(op, IF res.raised = "" THEN success ELSE res.raised, res.violated)

Init ==
    /\ categories = <<>>
    /\ products = <<>>
    /\ nextCategoryPk = 1
    /\ nextProductPk = 1
    /\ last = Outcome("", "", {})
    /\ proc = [p \in Procs |-> Idle]
    /\ focus \in Focuses

-----------------------------------------------------------------------------
(* Model-level operations, as the tests call them. *)

\* Category.objects.create(name=..., slug=..., description=..., parent=...)
CategoryObjectsCreate(name, slug, description, parent) ==
    /\ parent \in {None} \cup DOMAIN categories
    /\ LET self == [pk |-> None, name |-> name, slug |-> slug,
                    description |-> description, parent |-> parent]
           res == Category_save(self)
       IN /\ categories' = res.rows
          /\ nextCategoryPk' = IF res.raised = "" THEN nextCategoryPk + 1 ELSE nextCategoryPk
          /\ last' = Saved("Category.objects.create", "ok", res)
    /\ UNCHANGED <<products, nextProductPk, proc, focus>>

\* Product.objects.create(name=..., slug=..., category=..., price=..., stock=...)
ProductObjectsCreate(name, slug, category, price, stock) ==
    /\ category \in DOMAIN categories
    /\ LET self == [pk |-> None, name |-> name, slug |-> slug,
                    category |-> category, price |-> price, stock |-> stock]
           res == Product_save(self)
       IN /\ products' = res.rows
          /\ nextProductPk' = IF res.raised = "" THEN nextProductPk + 1 ELSE nextProductPk
          /\ last' = Saved("Product.objects.create", "ok", res)
    /\ UNCHANGED <<categories, nextCategoryPk, proc, focus>>

\* A stored Category is loaded, renamed and saved: c.name = name; c.save()
CategoryInstanceSave(pk, name) ==
    /\ pk \in DOMAIN categories
    /\ LET self == [pk |-> pk, name |-> name, slug |-> categories[pk].slug,
                    description |-> categories[pk].description,
                    parent |-> categories[pk].parent]
           res == Category_save(self)
       IN /\ categories' = res.rows
          /\ last' = Saved("Category.save", "ok", res)
    /\ UNCHANGED <<products, nextCategoryPk, nextProductPk, proc, focus>>

\* A stored Product is loaded, renamed and saved: p.name = name; p.save()
ProductInstanceSave(pk, name) ==
    /\ pk \in DOMAIN products
    /\ LET self == [pk |-> pk, name |-> name, slug |-> products[pk].slug,
                    category |-> products[pk].category,
                    price |-> products[pk].price, stock |-> products[pk].stock]
           res == Product_save(self)
       IN /\ products' = res.rows
          /\ last' = Saved("Product.save", "ok", res)
    /\ UNCHANGED <<categories, nextCategoryPk, nextProductPk, proc, focus>>

-----------------------------------------------------------------------------
(* The views: POST requests. *)

\* CategoryCreateView: form.is_valid() then form.save(), else the form again.
CategoryCreateView_post(name, slug, description, parent) ==
    /\ IF CategoryForm_is_valid(None, name, slug, parent)
       THEN LET self == [pk |-> None, name |-> CleanName(name), slug |-> slug,
                         description |-> description, parent |-> parent]
                res == Category_save(self)
            IN /\ categories' = res.rows
               /\ nextCategoryPk' = IF res.raised = "" THEN nextCategoryPk + 1 ELSE nextCategoryPk
               /\ last' = Saved("CategoryCreateView", "302", res)
       ELSE /\ last' = Outcome("CategoryCreateView", "200", {})
            /\ UNCHANGED <<categories, nextCategoryPk>>
    /\ UNCHANGED <<products, nextProductPk, proc, focus>>

\* CategoryUpdateView: the form is bound to the stored row pk; every field of
\* the form (name, slug, description, parent) is assigned from the request.
CategoryUpdateView_post(pk, name, slug, description, parent) ==
    /\ pk \in DOMAIN categories
    /\ IF CategoryForm_is_valid(pk, name, slug, parent)
       THEN LET self == [pk |-> pk, name |-> CleanName(name), slug |-> slug,
                         description |-> description, parent |-> parent]
                res == Category_save(self)
            IN /\ categories' = res.rows
               /\ last' = Saved("CategoryUpdateView", "302", res)
       ELSE /\ last' = Outcome("CategoryUpdateView", "200", {})
            /\ UNCHANGED categories
    /\ UNCHANGED <<products, nextCategoryPk, nextProductPk, proc, focus>>

\* CategoryDeleteView: self.object.delete(); a protected row raises.
CategoryDeleteView_post(pk) ==
    /\ pk \in DOMAIN categories
    /\ IF Protected(pk)
       THEN /\ last' = Outcome("CategoryDeleteView", "ProtectedError", {})
            /\ UNCHANGED categories
       ELSE /\ categories' = RemoveRow(categories, pk)
            /\ last' = Outcome("CategoryDeleteView", "302", {})
    /\ UNCHANGED <<products, nextCategoryPk, nextProductPk, proc, focus>>

\* ProductCreateView
ProductCreateView_post(name, category, price, stock) ==
    /\ IF ProductForm_is_valid(name, category, price, stock)
       THEN LET self == [pk |-> None, name |-> CleanName(name), slug |-> Empty,
                         category |-> category, price |-> price, stock |-> stock]
                res == Product_save(self)
            IN /\ products' = res.rows
               /\ nextProductPk' = IF res.raised = "" THEN nextProductPk + 1 ELSE nextProductPk
               /\ last' = Saved("ProductCreateView", "302", res)
       ELSE /\ last' = Outcome("ProductCreateView", "200", {})
            /\ UNCHANGED <<products, nextProductPk>>
    /\ UNCHANGED <<categories, nextCategoryPk, proc, focus>>

\* ProductUpdateView: slug is not a form field and keeps the stored value.
ProductUpdateView_post(pk, name, category, price, stock) ==
    /\ pk \in DOMAIN products
    /\ IF ProductForm_is_valid(name, category, price, stock)
       THEN LET self == [pk |-> pk, name |-> CleanName(name), slug |-> products[pk].slug,
                         category |-> category, price |-> price, stock |-> stock]
                res == Product_save(self)
            IN /\ products' = res.rows
               /\ last' = Saved("ProductUpdateView", "302", res)
       ELSE /\ last' = Outcome("ProductUpdateView", "200", {})
            /\ UNCHANGED products
    /\ UNCHANGED <<categories, nextCategoryPk, nextProductPk, proc, focus>>

\* ProductDeleteView: nothing references a Product.
ProductDeleteView_post(pk) ==
    /\ pk \in DOMAIN products
    /\ products' = RemoveRow(products, pk)
    /\ last' = Outcome("ProductDeleteView", "302", {})
    /\ UNCHANGED <<categories, nextCategoryPk, nextProductPk, proc, focus>>

-----------------------------------------------------------------------------------------------------------------------------------------------------------------------------------------------------------------------------------------------------------------------------------------------------
(* Inputs.  A run varies one aspect of the data, named by focus, and keeps *)
(* the rest minimal:                                                       *)
(*   "Category"   names and slugs of Categories, no Products;              *)
(*   "Product"    names and slugs of Products under one Category;          *)
(*   "References" parents and Product categories;                          *)
(*   "EndToEnd"   Categories with descriptions and parents, created and    *)
(*                deleted but never edited;                                *)
(*   "Namespaces" Categories and Products of the same names;               *)
(*   "EmptySlug"  Categories whose names slugify to the empty string.      *)

\* "Home" and "home" share the base slug "home"; "Home 1" slugifies to the
\* first suffixed form "home-1"; "!" and "?" slugify to the empty string.
CategoryNames ==
    CASE focus = "Category" -> {Home, HomeLower, HomeOne}
      [] focus = "Product" -> {Kitchen}
      [] focus = "References" -> {Home, Kitchen}
      [] focus = "EndToEnd" -> {Home, HomeLower, Kitchen}
      [] focus = "Namespaces" -> {Home, HomeLower, Kitchen}
      [] focus = "EmptySlug" -> {Punctuation, Question}
ProductNames ==
    CASE focus = "Product" -> {Home, Punctuation}
      [] focus = "Namespaces" -> {Home}
      [] OTHER -> {Kitchen}
\* Slugs a caller passes explicitly (Empty: no slug given).
SlugInputs == IF focus \in {"Category", "Product"} THEN {Empty, HomeLower} ELSE {Empty}
Descriptions == IF focus = "EndToEnd" THEN {Empty, <<"d">>} ELSE {Empty}
ParentInputs ==
    IF focus \in {"References", "EndToEnd"} THEN {None} \cup DOMAIN categories ELSE {None}
\* The price and stock of the Products the callers create.
Price == 10
Stock == 0

\* Names given to stored rows by a later save().
CategoryRenames == IF focus = "Category" THEN CategoryNames ELSE {}
ProductRenames == IF focus = "Product" THEN ProductNames ELSE {}
\* Names submitted when the stored row pk is edited through its form; a run
\* that varies the references resubmits the stored name.
CategoryEditNames(pk) ==
    CASE focus = "Category" -> CategoryNames
      [] focus = "References" -> {categories[pk].name}
      [] OTHER -> {}
ProductEditNames(pk) ==
    CASE focus = "Product" -> ProductNames
      [] focus = "References" -> {products[pk].name}
      [] OTHER -> {}

\* Runs that also submit invalid form data.
Invalids == focus \in {"Category", "Product"}

\* Category form submissions (name, slug) with the given names: the valid
\* ones, and with a missing name and with "!", which is not a valid slug.
CategorySubmissions(names) ==
    {[name |-> n, slug |-> s] : n \in names, s \in SlugInputs}
    \cup (IF Invalids /\ names # {}
          THEN {[name |-> Empty, slug |-> Empty],
                [name |-> CHOOSE n \in names : TRUE, slug |-> Punctuation]}
          ELSE {})

\* Product form submissions (name, price, stock) with the given names: the
\* valid ones, and with a missing name, a negative price and a negative stock.
ProductSubmissions(names) ==
    {[name |-> n, price |-> Price, stock |-> Stock] : n \in names}
    \cup (IF Invalids /\ names # {}
          THEN {[name |-> Empty, price |-> Price, stock |-> Stock],
                [name |-> CHOOSE n \in names : TRUE, price |-> -1, stock |-> Stock],
                [name |-> CHOOSE n \in names : TRUE, price |-> Price, stock |-> -1]}
          ELSE {})

\* Rows inserted per table in a run.
CategoryCap ==
    CASE focus = "Category" -> MaxCategories
      [] focus = "Product" -> 1
      [] focus = "References" -> MaxRefCategories
      [] focus = "EndToEnd" -> MaxCategories
      [] focus \in {"Namespaces", "EmptySlug"} -> MaxRefCategories
ProductCap ==
    CASE focus = "Product" -> MaxProducts
      [] focus \in {"References", "Namespaces"} -> MaxRefProducts
      [] OTHER -> 0

-----------------------------------------------------------------------------
(* Sequential specification: one request at a time, each run to its end. *)

Next ==
    \/ /\ nextCategoryPk <= CategoryCap
       /\ \E n \in CategoryNames, s \in SlugInputs, d \in Descriptions, par \in ParentInputs :
             CategoryObjectsCreate(n, s, d, par)
    \/ /\ nextProductPk <= ProductCap
       /\ \E n \in ProductNames, s \in SlugInputs, c \in DOMAIN categories :
             ProductObjectsCreate(n, s, c, Price, Stock)
    \/ \E pk \in DOMAIN categories, n \in CategoryRenames : CategoryInstanceSave(pk, n)
    \/ \E pk \in DOMAIN products, n \in ProductRenames : ProductInstanceSave(pk, n)
    \/ /\ nextCategoryPk <= CategoryCap
       /\ \E f \in CategorySubmissions(CategoryNames), d \in Descriptions, par \in ParentInputs :
             CategoryCreateView_post(f.name, f.slug, d, par)
    \/ \E pk \in DOMAIN categories :
          \E f \in CategorySubmissions(CategoryEditNames(pk)), d \in Descriptions,
             par \in ParentInputs :
             CategoryUpdateView_post(pk, f.name, f.slug, d, par)
    \/ \E pk \in DOMAIN categories : CategoryDeleteView_post(pk)
    \/ /\ nextProductPk <= ProductCap
       /\ \E f \in ProductSubmissions(ProductNames), c \in DOMAIN categories :
             ProductCreateView_post(f.name, c, f.price, f.stock)
    \/ \E pk \in DOMAIN products :
          \E f \in ProductSubmissions(ProductEditNames(pk)), c \in DOMAIN categories :
             ProductUpdateView_post(pk, f.name, c, f.price, f.stock)
    \/ \E pk \in DOMAIN products : ProductDeleteView_post(pk)

Spec == Init /\ [][Next]_vars

-----------------------------------------------------------------------------
(* Concurrent specification: each process serves one request at a time and *)
(* runs save() of a new instance query by query; the queries of different  *)
(* processes interleave.  A process holds the instance (self), the local   *)
(* variables original_slug and counter, and the exception it ended with.   *)

Table(kind) == IF kind = "Category" THEN categories ELSE products

\* Requests in flight that may still insert a row of the kind.
InFlight(kind) == Cardinality({p \in Procs : proc[p].pc \in {"loop", "write"} /\ proc[p].kind = kind})

\* Variant of save_check that waits while another save is between its check
\* and its write (a lock around check-and-assign).
save_check_Locked(p, kind, self) ==
    /\ proc[p].pc = "idle"
    /\ \A q \in Procs : proc[q].pc \notin {"loop", "write"}
    /\ LET slug == IF self.slug = Empty THEN slugify(self.name) ELSE self.slug
           found == \E k \in DOMAIN Table(kind) : Table(kind)[k].slug = slug
       IN proc' = [proc EXCEPT ![p] =
                     [pc |-> IF found THEN "loop" ELSE "write", kind |-> kind,
                      self |-> [self EXCEPT !.slug = slug],
                      original_slug |-> slug, counter |-> 1, raised |-> ""]]
    /\ UNCHANGED <<categories, products, nextCategoryPk, nextProductPk, last, focus>>

\* save() up to the first query: the slug is generated, the uniqueness query
\* runs, and on a collision original_slug and counter are set for the loop.
save_check(p, kind, self) ==
    /\ proc[p].pc = "idle"
    /\ LET slug == InitialSlug(self)
           found == SlugExistsExcludingSelf(Table(kind), slug, self.pk)
       IN proc' = [proc EXCEPT ![p] =
                     [pc |-> IF found THEN "loop" ELSE "write", kind |-> kind,
                      self |-> [self EXCEPT !.slug = slug],
                      original_slug |-> slug, counter |-> 1, raised |-> ""]]
    /\ UNCHANGED <<categories, products, nextCategoryPk, nextProductPk, last, focus>>

\* Category.objects.create(name=...) entering save().
Category_save_check(p, name) ==
    save_check(p, "Category",
               [pk |-> None, name |-> name, slug |-> Empty,
                description |-> Empty, parent |-> None])

\* Product.objects.create(name=..., category=...) entering save().
Product_save_check(p, name, category) ==
    /\ category \in DOMAIN categories
    /\ save_check(p, "Product",
                  [pk |-> None, name |-> name, slug |-> Empty,
                   category |-> category, price |-> Price, stock |-> Stock])

\* Variant of save_loop whose body assigns the slug without the counter.
save_loop_SameSlug(p) ==
    /\ proc[p].pc = "loop"
    /\ IF \E k \in DOMAIN Table(proc[p].kind) : Table(proc[p].kind)[k].slug = proc[p].self.slug
       THEN proc' = [proc EXCEPT
                       ![p].self.slug = proc[p].original_slug,
                       ![p].counter = proc[p].counter + 1]
       ELSE proc' = [proc EXCEPT ![p].pc = "write"]
    /\ UNCHANGED <<categories, products, nextCategoryPk, nextProductPk, last, focus>>

\* One evaluation of the while condition, and the loop body when it holds.
save_loop(p) ==
    /\ proc[p].pc = "loop"
    /\ IF SlugExists(Table(proc[p].kind), proc[p].self.slug)
       THEN proc' = [proc EXCEPT
                       ![p].self.slug = Suffixed(proc[p].original_slug, proc[p].counter),
                       ![p].counter = proc[p].counter + 1]
       ELSE proc' = [proc EXCEPT ![p].pc = "write"]
    /\ UNCHANGED <<categories, products, nextCategoryPk, nextProductPk, last, focus>>

\* super().save(): the INSERT, checked against the declared constraints. An
\* IntegrityError propagates out of save(); nothing catches it.
save_write(p) ==
    /\ proc[p].pc = "write"
    /\ LET self == proc[p].self IN
       IF proc[p].kind = "Category"
       THEN LET row == CategoryRow(self, self.slug) IN
            /\ IF CategoryViolations(categories, nextCategoryPk, row) # {}
               THEN /\ proc' = [proc EXCEPT ![p].pc = "done", ![p].raised = "IntegrityError"]
                    /\ UNCHANGED <<categories, nextCategoryPk>>
               ELSE /\ categories' = WriteRow(categories, nextCategoryPk, row)
                    /\ nextCategoryPk' = nextCategoryPk + 1
                    /\ proc' = [proc EXCEPT ![p].pc = "done"]
            /\ UNCHANGED <<products, nextProductPk>>
       ELSE LET row == ProductRow(self, self.slug) IN
            /\ IF ProductViolations(products, nextProductPk, row) # {}
               THEN /\ proc' = [proc EXCEPT ![p].pc = "done", ![p].raised = "IntegrityError"]
                    /\ UNCHANGED <<products, nextProductPk>>
               ELSE /\ products' = WriteRow(products, nextProductPk, row)
                    /\ nextProductPk' = nextProductPk + 1
                    /\ proc' = [proc EXCEPT ![p].pc = "done"]
            /\ UNCHANGED <<categories, nextCategoryPk>>
    /\ UNCHANGED <<last, focus>>

\* The request is over; the process takes the next one.
request_finished(p) ==
    /\ proc[p].pc = "done"
    /\ proc' = [proc EXCEPT ![p] = Idle]
    /\ UNCHANGED <<categories, products, nextCategoryPk, nextProductPk, last, focus>>

ConcInit ==
    /\ categories = <<>>
    /\ products = <<>>
    /\ nextCategoryPk = 1
    /\ nextProductPk = 1
    /\ last = Outcome("", "", {})
    /\ proc = [p \in Procs |-> Idle]
    /\ focus = "Concurrent"

ConcNext ==
    \/ /\ nextCategoryPk + InFlight("Category") <= MaxConcurrentRows
       /\ \E p \in Procs, n \in {Home, HomeLower} : Category_save_check(p, n)
    \/ /\ nextProductPk + InFlight("Product") <= MaxConcurrentRows
       /\ \E p \in Procs, n \in {Home}, c \in DOMAIN categories : Product_save_check(p, n, c)
    \/ \E p \in Procs : save_loop(p)
    \/ \E p \in Procs : save_write(p)
    \/ \E p \in Procs : request_finished(p)

ConcSpec == ConcInit /\ [][ConcNext]_vars

\* A call of save() that has started keeps running: the thread serving the
\* request executes its next query; nothing makes it wait.
FairConcSpec ==
    ConcSpec /\ \A p \in Procs : WF_vars(save_loop(p)) /\ WF_vars(save_write(p))

-----------------------------------------------------------------------------
(* Properties. *)

HomeSlug == <<"h","o","m","e">>
HomeSlug1 == <<"h","o","m","e","-","1">>
HomeSlug2 == <<"h","o","m","e","-","2">>

NoTwoRowsShareSlug(rows) ==
    \A j, k \in DOMAIN rows : j # k => rows[j].slug # rows[k].slug

Succeeded == last.status \in {"ok", "302"}

\* C1: after any sequence of sequential create, update and delete operations
\* no two Category rows and no two Product rows have the same slug; the
\* uniqueness is the work of save itself: no sequential save is refused by
\* the unique constraint of the slug column.
C1_SlugUniquePerTable ==
    /\ NoTwoRowsShareSlug(categories)
    /\ NoTwoRowsShareSlug(products)
    /\ "slug" \notin last.violated

\* Rows whose names share a base slug are stored together in each table.
C1_Witness ==
    /\ Succeeded
    /\ \/ \E j, k \in DOMAIN categories :
             j # k /\ slugify(categories[j].name) = slugify(categories[k].name)
       \/ \E j, k \in DOMAIN products :
             j # k /\ slugify(products[j].name) = slugify(products[k].name)
    /\ Cardinality(DOMAIN categories) + Cardinality(DOMAIN products) >= 3

\* Inputs the properties range over: every text and reference of any run.
AllNames == {Home, HomeLower, HomeOne, Kitchen, Punctuation, Empty}
AllSlugInputs == {Empty, HomeLower, Punctuation}
AllDescriptions == {Empty, <<"d">>}
AllParents == {None} \cup DOMAIN categories
AllPrices == {-1, Price}
AllStocks == {-1, Stock}

HeldIn(rows, slug) == \E k \in DOMAIN rows : rows[k].slug = slug

CategoryCreated == last'.op \in {"Category.objects.create", "CategoryCreateView"}
                   /\ nextCategoryPk \in DOMAIN categories'
ProductCreated == last'.op \in {"Product.objects.create", "ProductCreateView"}
                  /\ nextProductPk \in DOMAIN products'

\* A Category named name is created with no explicit slug.
CreatesCategory(name) ==
    \E d \in AllDescriptions, par \in AllParents :
       \/ CategoryObjectsCreate(name, Empty, d, par)
       \/ CategoryCreateView_post(name, Empty, d, par)
\* A Product named name is created with no explicit slug.
CreatesProduct(name) ==
    \E c \in DOMAIN categories :
       \/ ProductObjectsCreate(name, Empty, c, Price, Stock)
       \/ \E p \in AllPrices, k \in AllStocks : ProductCreateView_post(name, c, p, k)

\* C2: when no stored row of the table has slug slugify(N), a new entity
\* created with name N and no explicit slug is stored with slug slugify(N).
C2_FreshNameGetsBaseSlug ==
    [][/\ CategoryCreated =>
            \A n \in AllNames :
               CreatesCategory(n) /\ ~HeldIn(categories, slugify(n))
               => categories'[nextCategoryPk].slug = slugify(n)
       /\ ProductCreated =>
            \A n \in AllNames :
               CreatesProduct(n) /\ ~HeldIn(products, slugify(n))
               => products'[nextProductPk].slug = slugify(n)]_vars

\* "Home 1" was created through the Category form beside "Home" and is stored
\* under "home-1".
C2_Witness ==
    /\ last = Outcome("CategoryCreateView", "302", {})
    /\ nextCategoryPk - 1 \in DOMAIN categories
    /\ categories[nextCategoryPk - 1].name = HomeOne
    /\ categories[nextCategoryPk - 1].slug = HomeSlug1
    /\ \E k \in DOMAIN categories : categories[k].name = Home /\ categories[k].slug = HomeSlug

\* slug is base-k for the smallest positive k such that base-k is not held.
SmallestFreeSuffix(rows, base, slug) ==
    \E k \in 1..(Cardinality(DOMAIN rows) + 1) :
       /\ slug = Suffixed(base, k)
       /\ ~HeldIn(rows, Suffixed(base, k))
       /\ \A j \in 1..(k - 1) : HeldIn(rows, Suffixed(base, j))

\* C3: when a stored row of the table holds S = slugify(N), a new entity
\* created with name N and no explicit slug is stored with slug S-k, k the
\* smallest positive integer such that no row of the table holds S-k.
C3_CollidingNameGetsSmallestSuffix ==
    [][/\ CategoryCreated =>
            \A n \in AllNames :
               CreatesCategory(n) /\ HeldIn(categories, slugify(n))
               => SmallestFreeSuffix(categories, slugify(n), categories'[nextCategoryPk].slug)
       /\ ProductCreated =>
            \A n \in AllNames :
               CreatesProduct(n) /\ HeldIn(products, slugify(n))
               => SmallestFreeSuffix(products, slugify(n), products'[nextProductPk].slug)]_vars

\* The third Product named "Home" is stored under "home-2" beside "home"
\* and "home-1".
C3_Witness ==
    /\ last = Outcome("ProductCreateView", "302", {})
    /\ nextProductPk - 1 \in DOMAIN products
    /\ products[nextProductPk - 1].name = Home
    /\ products[nextProductPk - 1].slug = HomeSlug2
    /\ \A k \in DOMAIN products : products[k].name = Home
    /\ Cardinality(DOMAIN products) = 3

SlugsKept(before, after) ==
    \A k \in DOMAIN before \cap DOMAIN after : after[k].slug = before[k].slug

\* Every slug that was set (not empty) is kept.
SetSlugsKept(before, after) ==
    \A k \in DOMAIN before \cap DOMAIN after :
       before[k].slug # Empty => after[k].slug = before[k].slug

\* C4 as claimed: every later save or edit of a stored Category or Product
\* leaves its stored slug as it was.
C4_SlugNeverChanges ==
    [][SlugsKept(categories, categories') /\ SlugsKept(products, products')]_vars

\* The slug is base, or base-k for a positive k.
BaseOrSuffixed(rows, base, slug) ==
    slug = base \/ \E k \in 1..(Cardinality(DOMAIN rows) + 1) : slug = Suffixed(base, k)

\* C4 amended: a save that does not assign the slug field (save() of a
\* stored row, also after a change of name, and the Product edit form) leaves
\* every stored non-empty slug as it was; the Category edit form assigns the
\* slug field from the request, and the row is then stored under the
\* submitted slug or, when that is blank, under a slug generated from the
\* submitted name (with a suffix on a collision).
C4_SlugKeptUnlessFormAssignsIt ==
    [][/\ last'.op # "CategoryUpdateView"
          => SetSlugsKept(categories, categories') /\ SetSlugsKept(products, products')
       /\ last' = Outcome("CategoryUpdateView", "302", {}) =>
            /\ SlugsKept(products, products')
            /\ \A pk \in DOMAIN categories, s \in AllSlugInputs :
                  CategoryUpdateView_post(pk, categories'[pk].name, s,
                                          categories'[pk].description, categories'[pk].parent)
                  => /\ BaseOrSuffixed(categories,
                                       IF s = Empty THEN slugify(categories'[pk].name) ELSE s,
                                       categories'[pk].slug)
                     /\ \A k \in DOMAIN categories \ {pk} :
                           categories'[k].slug = categories[k].slug]_vars

\* A stored Product was renamed through the edit form and kept its slug.
C4_Witness ==
    /\ last = Outcome("ProductUpdateView", "302", {})
    /\ \E pk \in DOMAIN products :
          products[pk].name = Punctuation /\ products[pk].slug = HomeSlug

HasChild(pk) == \E k \in DOMAIN categories : categories[k].parent = pk
HasProduct(pk) == \E k \in DOMAIN products : products[k].category = pk
NothingStored == /\ categories' = categories
                 /\ products' = products
                 /\ nextCategoryPk' = nextCategoryPk
                 /\ nextProductPk' = nextProductPk

\* C5: deleting a Category that is the parent of a Category or is referenced by
\* a Product fails with a protection error and leaves every Category and
\* Product row as it was.
C5_ProtectedDeleteRefused ==
    [][\A pk \in DOMAIN categories :
          CategoryDeleteView_post(pk) /\ (HasChild(pk) \/ HasProduct(pk))
          => last'.status = "ProtectedError" /\ NothingStored]_vars

\* The delete of a Category without children that a Product references was
\* refused.
C5_Witness ==
    /\ last = Outcome("CategoryDeleteView", "ProtectedError", {})
    /\ products # <<>>
    /\ \A k \in DOMAIN categories : categories[k].parent = None

\* The table lost exactly the row pk.
ExactlyRemoved(before, after, pk) ==
    /\ DOMAIN after = DOMAIN before \ {pk}
    /\ \A k \in DOMAIN after : after[k] = before[k]

\* C6: deleting a Category with no child and no referencing Product, or any
\* Product, succeeds and removes exactly that row.
C6_UnprotectedDeleteRemovesOneRow ==
    [][/\ \A pk \in DOMAIN categories :
             CategoryDeleteView_post(pk) /\ ~HasChild(pk) /\ ~HasProduct(pk)
             => /\ last'.status = "302"
                /\ ExactlyRemoved(categories, categories', pk)
                /\ products' = products
       /\ \A pk \in DOMAIN products :
             ProductDeleteView_post(pk)
             => /\ last'.status = "302"
                /\ ExactlyRemoved(products, products', pk)
                /\ categories' = categories]_vars

\* A Category was deleted while other Categories and a Product remain.
C6_Witness ==
    /\ last = Outcome("CategoryDeleteView", "302", {})
    /\ categories # <<>>
    /\ products # <<>>

\* C7: a create or edit submission with a negative price, a negative stock or
\* a missing name is answered with status 200 and stores nothing.
C7_InvalidFormStoresNothing ==
    [][/\ last'.op \in {"ProductCreateView", "ProductUpdateView"} =>
            \A n \in AllNames, c \in DOMAIN categories, p \in AllPrices, k \in AllStocks :
               /\ n = Empty \/ p < 0 \/ k < 0
               /\ \/ ProductCreateView_post(n, c, p, k)
                  \/ \E pk \in DOMAIN products : ProductUpdateView_post(pk, n, c, p, k)
               => last'.status = "200" /\ NothingStored
       /\ last'.op \in {"CategoryCreateView", "CategoryUpdateView"} =>
            \A s \in AllSlugInputs, d \in AllDescriptions, par \in AllParents :
               \/ CategoryCreateView_post(Empty, s, d, par)
               \/ \E pk \in DOMAIN categories : CategoryUpdateView_post(pk, Empty, s, d, par)
               => last'.status = "200" /\ NothingStored]_vars

\* An edit of a stored Product was rejected by the form.
C7_Witness ==
    /\ last = Outcome("ProductUpdateView", "200", {})
    /\ products # <<>>

\* The first "Home" is the only Category.
OnlyFirstHome ==
    /\ DOMAIN categories = {1}
    /\ categories[1].name = Home
    /\ categories[1].slug = HomeSlug

\* A Category named name is created with description d and no explicit slug.
CreatesCategoryDescribed(name, d) ==
    \/ CategoryObjectsCreate(name, Empty, d, None)
    \/ CategoryCreateView_post(name, Empty, d, None)

\* C8 as claimed: with the first "Home" stored under "home", creating a
\* second Category named "Home" with a different description succeeds and
\* stores it under "home-1".
C8_SecondHomeStored ==
    [][\A d \in AllDescriptions :
          /\ OnlyFirstHome
          /\ d # categories[1].description
          /\ CreatesCategoryDescribed(Home, d)
          => /\ nextCategoryPk \in DOMAIN categories'
             /\ categories'[nextCategoryPk].slug = HomeSlug1]_vars

\* C8 amended: from an empty store a Category named "Home" is stored under
\* "home"; a second Category named "Home" is refused whatever its description
\* (name is unique) and stores nothing; a Category named "home", with a
\* different description, is stored under "home-1"; once "Kitchen" is a child
\* of the first "Home", deleting the first "Home" is refused and all rows are
\* still present.
C8_EndToEnd ==
    [][/\ \A d \in AllDescriptions :
             categories = <<>> /\ nextCategoryPk = 1 /\ CreatesCategoryDescribed(Home, d)
             => DOMAIN categories' = {1} /\ categories'[1].slug = HomeSlug
       /\ \A d \in AllDescriptions :
             OnlyFirstHome /\ CreatesCategoryDescribed(Home, d)
             => last'.status \in {"IntegrityError", "200"} /\ NothingStored
       /\ \A d \in AllDescriptions :
             /\ OnlyFirstHome
             /\ d # categories[1].description
             /\ CreatesCategoryDescribed(HomeLower, d)
             => /\ DOMAIN categories' = {1, nextCategoryPk}
                /\ categories'[nextCategoryPk].slug = HomeSlug1
                /\ categories'[1] = categories[1]
       /\ \A pk \in DOMAIN categories :
             /\ categories[pk].name = Home
             /\ \E k \in DOMAIN categories :
                   categories[k].name = Kitchen /\ categories[k].parent = pk
             /\ CategoryDeleteView_post(pk)
             => last'.status = "ProtectedError" /\ NothingStored]_vars

\* "Home", "home" and the child "Kitchen" are stored and the delete of "Home"
\* was refused.
C8_Witness ==
    /\ last = Outcome("CategoryDeleteView", "ProtectedError", {})
    /\ DOMAIN categories = {1, 2, 3}
    /\ categories[1].name = Home /\ categories[1].slug = HomeSlug
    /\ categories[2].name = HomeLower /\ categories[2].slug = HomeSlug1
    /\ categories[2].description # categories[1].description
    /\ categories[3].name = Kitchen /\ categories[3].parent = 1

\* The instance of another new entity with the same field values.
SameNewEntity(self) == [self EXCEPT !.slug = Empty, !.pk = None]

\* C9: the check and the write of save are not atomic and nothing serializes
\* them: while one save of a new entity is between its check and its write,
\* a second save of a new entity of the same name can run its check, and when
\* the first is about to write the base slug the second passes its check
\* with the same slug.
C9_CheckThenWriteNotAtomic ==
    \A p, q \in Procs :
       p # q /\ proc[p].pc = "idle" /\ proc[q].pc \in {"loop", "write"}
       => /\ ENABLED save_check(p, proc[q].kind, SameNewEntity(proc[q].self))
          /\ /\ proc[q].pc = "write"
             /\ proc[q].self.slug = slugify(proc[q].self.name)
             /\ ~HeldIn(Table(proc[q].kind), proc[q].self.slug)
             => ENABLED (/\ save_check(p, proc[q].kind, SameNewEntity(proc[q].self))
                         /\ proc'[p].pc = "write"
                         /\ proc'[p].self.slug = proc[q].self.slug)

\* Two saves of Products named "Home" chose the same slug and both attempted
\* the write: one stored its row, the other raised IntegrityError.
C9_Witness ==
    \E p, q \in Procs :
       /\ p # q
       /\ proc[p].pc = "done" /\ proc[q].pc = "done"
       /\ proc[p].kind = "Product" /\ proc[q].kind = "Product"
       /\ proc[p].self.name = proc[q].self.name
       /\ proc[p].self.slug = proc[q].self.slug
       /\ proc[p].raised = "" /\ proc[q].raised = "IntegrityError"

\* C10: under every interleaving of concurrent saves no table holds two rows
\* with the same slug; a save whose slug is held when it writes fails with
\* IntegrityError and writes no row, and a failed save is not retried.
C10_ConstraintKeepsSlugsUnique ==
    /\ [](NoTwoRowsShareSlug(categories) /\ NoTwoRowsShareSlug(products))
    /\ [][\A p \in Procs :
             /\ save_write(p) /\ HeldIn(Table(proc[p].kind), proc[p].self.slug)
                => /\ proc'[p].pc = "done"
                   /\ proc'[p].raised = "IntegrityError"
                   /\ NothingStored
             /\ proc[p].pc = "done" /\ proc[p].raised = "IntegrityError"
                => proc'[p] \in {proc[p], Idle}]_vars

\* The save that wrote second failed on the slug held by the first row.
C10_Witness ==
    \E p \in Procs :
       /\ proc[p].pc = "done"
       /\ proc[p].kind = "Product"
       /\ proc[p].raised = "IntegrityError"
       /\ \E k \in DOMAIN products :
             products[k].slug = proc[p].self.slug /\ products[k].name = proc[p].self.name

\* The slug is the one the rows of this table alone determine for base: base
\* when no row holds it, else base-k for the smallest free k.
ChosenWithin(rows, base, slug) ==
    IF HeldIn(rows, base) THEN SmallestFreeSuffix(rows, base, slug) ELSE slug = base

\* C11: the slug a new Product is stored with is determined by its name and
\* the slugs of the Product rows alone, and the slug of a new Category by the
\* Category rows alone, whatever the other table holds.
C11_IndependentNamespaces ==
    [][/\ ProductCreated =>
            \A n \in AllNames \cap {products'[nextProductPk].name} :
               CreatesProduct(n)
               => ChosenWithin(products, slugify(n), products'[nextProductPk].slug)
       /\ CategoryCreated =>
            \A n \in AllNames \cap {categories'[nextCategoryPk].name} :
               CreatesCategory(n)
               => ChosenWithin(categories, slugify(n), categories'[nextCategoryPk].slug)]_vars

\* A Product "Home" was stored under "home", the slug a Category holds; a
\* second Category of that base slug has the suffix, the Product has none.
C11_Witness ==
    /\ last.op \in {"Product.objects.create", "ProductCreateView"}
    /\ Succeeded
    /\ \E k \in DOMAIN products : products[k].slug = HomeSlug
    /\ \E k \in DOMAIN categories : categories[k].slug = HomeSlug
    /\ \E k \in DOMAIN categories : categories[k].slug = HomeSlug1

\* The rows of the table other than pk.
OtherRows(rows, pk) == [k \in DOMAIN rows \ {pk} |-> rows[k]]

\* C12: when a stored entity is saved, the slug it is stored with is the one
\* the other rows of its table determine for the slug it entered save with:
\* that slug when no other row holds it, else base-k for the smallest
\* positive k that no other row holds; the entity's own row never counts.
C12_OwnRowExcluded ==
    [][/\ last'.op \in {"Category.save", "CategoryUpdateView"} =>
            \A pk \in DOMAIN categories :
               /\ CategoryInstanceSave(pk, categories'[pk].name) /\ last'.status = "ok"
                  => ChosenWithin(OtherRows(categories, pk),
                                  IF categories[pk].slug = Empty
                                  THEN slugify(categories'[pk].name)
                                  ELSE categories[pk].slug,
                                  categories'[pk].slug)
               /\ \A s \in AllSlugInputs :
                     /\ CategoryUpdateView_post(pk, categories'[pk].name, s,
                                                categories'[pk].description,
                                                categories'[pk].parent)
                     /\ last'.status = "302"
                     => ChosenWithin(OtherRows(categories, pk),
                                     IF s = Empty THEN slugify(categories'[pk].name) ELSE s,
                                     categories'[pk].slug)
       /\ last'.op \in {"Product.save", "ProductUpdateView"} =>
            \A pk \in DOMAIN products :
               /\ \/ ProductInstanceSave(pk, products'[pk].name)
                  \/ ProductUpdateView_post(pk, products'[pk].name, products'[pk].category,
                                            products'[pk].price, products'[pk].stock)
               /\ last'.status \in {"ok", "302"}
               => ChosenWithin(OtherRows(products, pk),
                               IF products[pk].slug = Empty
                               THEN slugify(products'[pk].name)
                               ELSE products[pk].slug,
                               products'[pk].slug)]_vars

\* target is reached from pk by following at most fuel parent references.
RECURSIVE AncestorWithin(_, _, _)
AncestorWithin(pk, target, fuel) ==
    /\ fuel > 0
    /\ pk \in DOMAIN categories
    /\ categories[pk].parent # None
    /\ \/ categories[pk].parent = target
       \/ AncestorWithin(categories[pk].parent, target, fuel - 1)

\* C13: the parent references form a forest: no Category is its own parent
\* or its own ancestor.
C13_ParentsFormForest ==
    \A pk \in DOMAIN categories :
       ~AncestorWithin(pk, pk, Cardinality(DOMAIN categories))

\* C14: every save ends. While a save is in or past its probe loop it has
\* found at most n probed slugs held, n the number of rows of its table, so
\* the loop condition is evaluated at most n + 1 times (counter counts the
\* evaluations that found the slug held, plus one); and a save that entered
\* the loop reaches the final write and returns or raises.
C14_SaveTerminates ==
    /\ [](\A p \in Procs :
            proc[p].pc \in {"loop", "write", "done"}
            => proc[p].counter - 1 <= Cardinality(DOMAIN Table(proc[p].kind)))
    /\ \A p \in Procs : (proc[p].pc = "loop") ~> (proc[p].pc = "write")
    /\ \A p \in Procs : (proc[p].pc = "write") ~> (proc[p].pc = "done")

\* A save of a second Category of base slug "home" went through the loop,
\* found "home" held and "home-1" free (two evaluations, one row), and
\* stored its row.
C14_Witness ==
    \E p \in Procs :
       /\ proc[p].pc = "done"
       /\ proc[p].kind = "Category"
       /\ proc[p].raised = ""
       /\ proc[p].counter = 2
       /\ proc[p].self.slug = HomeSlug1
       /\ Cardinality(DOMAIN categories) = 2

\* The slugs a caller supplies.
SuppliedSlugs == AllSlugInputs \ {Empty}

\* The table gained the row pk and kept every other row as it was.
StoredBeside(before, after, pk) ==
    /\ DOMAIN after = DOMAIN before \cup {pk}
    /\ \A k \in DOMAIN before : after[k] = before[k]

\* The names, descriptions and parents a create that led to the next state
\* can have had: those of the new row when one was stored.
NewProductNames ==
    IF nextProductPk \in DOMAIN products'
    THEN AllNames \cap {products'[nextProductPk].name} ELSE AllNames
NewCategoryNames ==
    IF nextCategoryPk \in DOMAIN categories'
    THEN AllNames \cap {categories'[nextCategoryPk].name} ELSE AllNames
NewCategoryDescriptions ==
    IF nextCategoryPk \in DOMAIN categories'
    THEN AllDescriptions \cap {categories'[nextCategoryPk].description} ELSE AllDescriptions
NewCategoryParents ==
    IF nextCategoryPk \in DOMAIN categories'
    THEN AllParents \cap {categories'[nextCategoryPk].parent} ELSE AllParents

\* C15: a new entity saved with a supplied slug X is stored under X when no
\* row of the table holds X, and under X-k for the smallest free k when a row
\* holds X; the slug never makes the save fail and no stored row is changed.
\* (A new Category is refused only for its name, which is unique; a form
\* that accepted X stores X.)
C15_SuppliedSlugHandledAlike ==
    [][/\ last'.op = "Product.objects.create" =>
            \A n \in NewProductNames, x \in SuppliedSlugs, c \in DOMAIN categories :
               ProductObjectsCreate(n, x, c, Price, Stock)
               => /\ last'.status = "ok"
                  /\ StoredBeside(products, products', nextProductPk)
                  /\ ChosenWithin(products, x, products'[nextProductPk].slug)
       /\ last'.op = "Category.objects.create" =>
            \A n \in NewCategoryNames, x \in SuppliedSlugs,
               d \in NewCategoryDescriptions, par \in NewCategoryParents :
               CategoryObjectsCreate(n, x, d, par)
               => /\ "slug" \notin last'.violated
                  /\ last'.status = "ok" =>
                        /\ StoredBeside(categories, categories', nextCategoryPk)
                        /\ ChosenWithin(categories, x, categories'[nextCategoryPk].slug)
                  /\ last'.status # "ok" => last'.violated = {"name"} /\ NothingStored
       /\ last' = Outcome("CategoryCreateView", "302", {}) =>
            \A n \in NewCategoryNames, x \in SuppliedSlugs,
               d \in NewCategoryDescriptions, par \in NewCategoryParents :
               CategoryCreateView_post(n, x, d, par)
               => /\ StoredBeside(categories, categories', nextCategoryPk)
                  /\ categories'[nextCategoryPk].slug = x]_vars

\* A Product named "!" was created with the supplied slug "home" while
\* "home" and "home-1" were held, and is stored under "home-2".
C15_Witness ==
    /\ last = Outcome("Product.objects.create", "ok", {})
    /\ nextProductPk - 1 \in DOMAIN products
    /\ products[nextProductPk - 1].name = Punctuation
    /\ products[nextProductPk - 1].slug = HomeSlug2
    /\ Cardinality(DOMAIN products) = 3

\* C16: every Product's category and every Category's parent that is not
\* null refers to a stored Category.
C16_ReferentialIntegrity ==
    /\ \A k \in DOMAIN products : products[k].category \in DOMAIN categories
    /\ \A k \in DOMAIN categories :
          categories[k].parent # None => categories[k].parent \in DOMAIN categories

\* A Category was deleted while a child Category is stored under another
\* Category, which is still stored.
C16_Witness ==
    /\ last = Outcome("CategoryDeleteView", "302", {})
    /\ Cardinality(DOMAIN categories) < nextCategoryPk - 1
    /\ \E k \in DOMAIN categories : categories[k].parent \notin {None, k}

\* Names that slugify to the empty string.
EmptySlugNames == {n \in {Punctuation, Question} : slugify(n) = Empty}

DashOne == <<"-", "1">>
DashTwo == <<"-", "2">>

\* C17: a new entity whose name slugifies to the empty string, created with no
\* slug, is stored: under the empty slug when no row of the table holds it,
\* else under "-k" for the smallest free k; save raises nothing for the
\* slug, and the slugs of the table stay distinct.  (A new Category is
\* refused only for its name, which is unique.)
C17_EmptySlugStored ==
    [][/\ last'.op \in {"Product.objects.create", "ProductCreateView"} =>
            \A n \in EmptySlugNames, c \in DOMAIN categories :
               \/ ProductObjectsCreate(n, Empty, c, Price, Stock)
               \/ ProductCreateView_post(n, c, Price, Stock)
               => /\ last'.status \in {"ok", "302"}
                  /\ StoredBeside(products, products', nextProductPk)
                  /\ ChosenWithin(products, Empty, products'[nextProductPk].slug)
                  /\ NoTwoRowsShareSlug(products')
       /\ last'.op = "Category.objects.create" =>
            \A n \in EmptySlugNames, d \in AllDescriptions, par \in AllParents :
               CategoryObjectsCreate(n, Empty, d, par)
               => /\ "slug" \notin last'.violated
                  /\ last'.status = "ok" =>
                        /\ StoredBeside(categories, categories', nextCategoryPk)
                        /\ ChosenWithin(categories, Empty, categories'[nextCategoryPk].slug)
                        /\ NoTwoRowsShareSlug(categories')
                  /\ last'.status # "ok" => last'.violated = {"name"} /\ NothingStored]_vars

\* The Categories "!" and "?" are stored under "" and "-1".
EmptySlugCategories ==
    /\ last = Outcome("Category.objects.create", "ok", {})
    /\ \E j, k \in DOMAIN categories :
          /\ categories[j].name = Punctuation /\ categories[j].slug = Empty
          /\ categories[k].name = Question /\ categories[k].slug = DashOne

\* Three Products named "!" are stored under "", "-1" and "-2".
C17_Witness ==
    /\ last.op \in {"Product.objects.create", "ProductCreateView"}
    /\ Succeeded
    /\ nextProductPk - 1 \in DOMAIN products
    /\ products[nextProductPk - 1].slug = DashTwo
    /\ \A k \in DOMAIN products : products[k].name = Punctuation
    /\ Cardinality(DOMAIN products) = 3

====
